---- MODULE Spec2Model ----
(***************************************************************************)
(* Payslip splitter (src/33OCR.py): text extraction of the period and the  *)
(* identifier, grouping of pages into payslips, assembly of the documents  *)
(* and their keys, and the upload batch with its persistent ledger.        *)
(*                                                                         *)
(* Texts are sequences of one-character strings, so that the regular       *)
(* expressions of the source are evaluated character by character.         *)
(***************************************************************************)
EXTENDS Integers, Sequences, FiniteSets, TLC

\* ------------------------------------------------------------------------
\* Bounds of the model
\* ------------------------------------------------------------------------
\* longest text of the extraction specification, in fragments
MaxFrags == 4
\* most pages of a source in the grouping specification
MaxPages == 4

\* ------------------------------------------------------------------------
\* Characters
\* ------------------------------------------------------------------------
Digits == {"0", "1", "2", "3", "4", "5", "6", "7", "8", "9"}

LowerSeq ==
  << "a", "b", "c", "d", "e", "f", "g", "h", "i", "j", "k", "l", "m",
     "n", "o", "p", "q", "r", "s", "t", "u", "v", "w", "x", "y", "z" >>

UpperSeq ==
  << "A", "B", "C", "D", "E", "F", "G", "H", "I", "J", "K", "L", "M",
     "N", "O", "P", "Q", "R", "S", "T", "U", "V", "W", "X", "Y", "Z" >>

LowerLetters == {LowerSeq[i] : i \in 1..26}

UpperLetters == {UpperSeq[i] : i \in 1..26}

\* str.upper() on one character
ToUpper(c) ==
  IF c \in LowerLetters
    THEN UpperSeq[CHOOSE i \in 1..26 : LowerSeq[i] = c]
    ELSE c

\* str.lower() on one character
ToLower(c) ==
  IF c \in UpperLetters
    THEN LowerSeq[CHOOSE i \in 1..26 : UpperSeq[i] = c]
    ELSE c

\* str.upper()
Upper(s) == [i \in 1..Len(s) |-> ToUpper(s[i])]

\* str.lower()
Lower(s) == [i \in 1..Len(s) |-> ToLower(s[i])]

\* \d
IsDigit(c) == c \in Digits

\* \s
IsSpace(c) == c \in {" ", "\n", "\t"}

\* \w
IsWord(c) == c \in Digits \/ c \in LowerLetters \/ c \in UpperLetters \/ c = "_"

\* is there a word character at position i of s (positions outside s: no)
WordAt(s, i) == i >= 1 /\ i <= Len(s) /\ IsWord(s[i])

\* \b between positions i and i+1 of s
Boundary(s, i) == WordAt(s, i) # WordAt(s, i + 1)

\* the literal lit (upper case) at position p of s, under re.IGNORECASE
MatchLit(s, p, lit) ==
  /\ p >= 1
  /\ p + Len(lit) - 1 <= Len(s)
  /\ \A k \in 1..Len(lit) : ToUpper(s[p + k - 1]) = lit[k]

\* "needle in haystack" of Python, case-sensitive
Contains(hay, needle) ==
  \E p \in 1..(Len(hay) - Len(needle) + 1) :
    \A k \in 1..Len(needle) : hay[p + k - 1] = needle[k]

\* \s* from position p: the first position at or after p that holds no space
SkipSpaces(s, p) ==
  LET rest == {q \in p..Len(s) : ~IsSpace(s[q])}
  IN  IF rest = {} THEN Len(s) + 1
      ELSE CHOOSE q \in rest : \A r \in rest : q <= r

\* (20\d{2})\b at position p
YearAt(s, p) ==
  /\ p >= 1
  /\ p + 3 <= Len(s)
  /\ s[p] = "2"
  /\ s[p + 1] = "0"
  /\ IsDigit(s[p + 2])
  /\ IsDigit(s[p + 3])
  /\ Boundary(s, p + 3)

\* the least element of a non-empty set of positions (re.search is leftmost)
Leftmost(S) == CHOOSE p \in S : \A q \in S : p <= q

\* ------------------------------------------------------------------------
\* get_details_from_text
\* ------------------------------------------------------------------------
DigitSeq == << "0", "1", "2", "3", "4", "5", "6", "7", "8", "9" >>

\* the keys of month_map, in the order of their codes '01' .. '12'
MonthNames ==
  << << "J", "A", "N", "U", "A", "R", "Y" >>,
     << "F", "E", "B", "R", "U", "A", "R", "Y" >>,
     << "M", "A", "R", "C", "H" >>,
     << "A", "P", "R", "I", "L" >>,
     << "M", "A", "Y" >>,
     << "J", "U", "N", "E" >>,
     << "J", "U", "L", "Y" >>,
     << "A", "U", "G", "U", "S", "T" >>,
     << "S", "E", "P", "T", "E", "M", "B", "E", "R" >>,
     << "O", "C", "T", "O", "B", "E", "R" >>,
     << "N", "O", "V", "E", "M", "B", "E", "R" >>,
     << "D", "E", "C", "E", "M", "B", "E", "R" >> >>

\* the keys of abbr_map, in the order of their codes '01' .. '12'
AbbrNames ==
  << << "J", "A", "N" >>,
     << "F", "E", "B" >>,
     << "M", "A", "R" >>,
     << "A", "P", "R" >>,
     << "M", "A", "Y" >>,
     << "J", "U", "N" >>,
     << "J", "U", "L" >>,
     << "A", "U", "G" >>,
     << "S", "E", "P" >>,
     << "O", "C", "T" >>,
     << "N", "O", "V" >>,
     << "D", "E", "C" >> >>

\* the value both maps give to their i-th key
MonthCode(i) ==
  IF i < 10 THEN << "0", DigitSeq[i + 1] >> ELSE << "1", DigitSeq[i - 10 + 1] >>

\* Python's None for a field of the record
Absent == << >>

\* no match of a date pattern
NoDate == [found |-> FALSE, month |-> Absent, year |-> Absent]

\* where (20\d{2}) has to start after the abbreviation at p: [\-\s]?\s*
AbbrYearPos(s, p) ==
  LET q  == p + 3
      q1 == IF q <= Len(s) /\ (s[q] = "-" \/ IsSpace(s[q])) THEN q + 1 ELSE q
  IN  SkipSpaces(s, q1)

\* the abbreviations that match at p
AbbrIdxAt(s, p) == {i \in 1..12 : MatchLit(s, p, AbbrNames[i])}

\* \b(JAN|...|DEC)[\-\s]?\s*(20\d{2})\b matches at p
AbbrAt(s, p) ==
  /\ Boundary(s, p - 1)
  /\ AbbrIdxAt(s, p) # {}
  /\ YearAt(s, AbbrYearPos(s, p))

\* re.search of the abbreviated date pattern
AbbrSearch(s) ==
  LET starts == {p \in 1..Len(s) : AbbrAt(s, p)}
  IN  IF starts = {} THEN NoDate
      ELSE LET p == Leftmost(starts)
               i == CHOOSE j \in AbbrIdxAt(s, p) : TRUE
               y == AbbrYearPos(s, p)
           IN  [found |-> TRUE, month |-> MonthCode(i), year |-> SubSeq(s, y, y + 3)]

\* the full month names that match at p, followed by \s+(20\d{2})\b
FullIdxAt(s, p) ==
  {i \in 1..12 :
     /\ MatchLit(s, p, MonthNames[i])
     /\ LET q == p + Len(MonthNames[i])
        IN  /\ q <= Len(s)
            /\ IsSpace(s[q])
            /\ YearAt(s, SkipSpaces(s, q))}

\* \b(January|...|December)\s+(20\d{2})\b matches at p
FullAt(s, p) == Boundary(s, p - 1) /\ FullIdxAt(s, p) # {}

\* re.search of full_date_pattern
FullSearch(s) ==
  LET starts == {p \in 1..Len(s) : FullAt(s, p)}
  IN  IF starts = {} THEN NoDate
      ELSE LET p == Leftmost(starts)
               i == CHOOSE j \in FullIdxAt(s, p) : TRUE
               y == SkipSpaces(s, p + Len(MonthNames[i]))
           IN  [found |-> TRUE, month |-> MonthCode(i), year |-> SubSeq(s, y, y + 3)]

\* \b(\d{6})\b matches at p
IppisAt(s, p) ==
  /\ Boundary(s, p - 1)
  /\ p + 5 <= Len(s)
  /\ \A k \in 0..5 : IsDigit(s[p + k])
  /\ Boundary(s, p + 5)

\* re.search(r'\b(\d{6})\b', merged_text): group 1, or None
IppisSearch(s) ==
  LET starts == {p \in 1..Len(s) : IppisAt(s, p)}
  IN  IF starts = {} THEN Absent
      ELSE LET p == Leftmost(starts) IN SubSeq(s, p, p + 5)

\* the return value None
NoDetails == [some |-> FALSE, year |-> Absent, month |-> Absent, ippis |-> Absent]

\* year and month as the branches on ocr_mode leave them
PeriodOf(s, ocr_mode) ==
  IF ocr_mode = "Full OCR"
    THEN FullSearch(s)
    ELSE LET abbr == AbbrSearch(s)
         IN  IF abbr.month = Absent THEN FullSearch(s) ELSE abbr

\* variant of get_details_from_text that does not test the identifier
DetailsWithoutIppisTest(merged_text, ocr_mode) ==
  IF merged_text = << >> THEN NoDetails
  ELSE LET period == PeriodOf(merged_text, ocr_mode)
           ippis_number == IppisSearch(merged_text)
       IN  IF period.year # Absent /\ period.month # Absent
             THEN [some |-> TRUE, year |-> period.year, month |-> period.month,
                   ippis |-> ippis_number]
             ELSE NoDetails

get_details_from_text(merged_text, ocr_mode) ==
  IF merged_text = << >> THEN NoDetails
  ELSE LET period == PeriodOf(merged_text, ocr_mode)
           ippis_number == IppisSearch(merged_text)
       IN  IF period.year # Absent /\ period.month # Absent /\ ippis_number # Absent
             THEN [some |-> TRUE, year |-> period.year, month |-> period.month,
                   ippis |-> ippis_number]
             ELSE NoDetails

\* ------------------------------------------------------------------------
\* group_pages_by_payslip_from_texts
\* ------------------------------------------------------------------------
START_MARKER == << "F", "E", "D", "E", "R", "A", "L", " ", "G", "O", "V", "E", "R", "N", "M", "E", "N", "T", " ", "O", "F", " ", "N", "I", "G", "E", "R", "I", "A" >>

\* START_MARKER in text_upper
HasStartMarker(text) == Contains(Upper(text), START_MARKER)

\* [[i] for i in range(pdf_num_pages)]
Singletons(pdf_num_pages) == [j \in 1..pdf_num_pages |-> << j - 1 >>]

\* the loop over enumerate(page_texts), from the page of index i on
\* (page indices are 0-based, page_texts[i + 1] is the text of page i)
RECURSIVE ScanPages(_, _, _, _)
ScanPages(page_texts, i, groups, current_group) ==
  IF i >= Len(page_texts)
    THEN IF current_group # << >> THEN Append(groups, current_group) ELSE groups
    ELSE IF HasStartMarker(page_texts[i + 1])
           THEN ScanPages(page_texts, i + 1,
                          IF current_group # << >> THEN Append(groups, current_group)
                                                   ELSE groups,
                          << i >>)
           ELSE IF current_group # << >>
                  THEN ScanPages(page_texts, i + 1, groups, Append(current_group, i))
                  ELSE ScanPages(page_texts, i + 1, groups, current_group)

\* variant of the grouper whose fallback test forgets the empty scan
GroupWithoutEmptyFallback(page_texts, pdf_num_pages) ==
  LET groups == ScanPages(page_texts, 0, << >>, << >>)
  IN  IF Len(groups) = 1 /\ Len(groups[1]) = pdf_num_pages
        THEN Singletons(pdf_num_pages)
        ELSE groups

\* variant of the grouper whose fallback test forgets the single group that
\* spans all pages
GroupWithoutSingleFallback(page_texts, pdf_num_pages) ==
  LET groups == ScanPages(page_texts, 0, << >>, << >>)
  IN  IF groups = << >> THEN Singletons(pdf_num_pages) ELSE groups

group_pages_by_payslip_from_texts(page_texts, pdf_num_pages) ==
  LET groups == ScanPages(page_texts, 0, << >>, << >>)
  IN  IF groups = << >> \/ (Len(groups) = 1 /\ Len(groups[1]) = pdf_num_pages)
        THEN Singletons(pdf_num_pages)
        ELSE groups

\* ------------------------------------------------------------------------
\* safe_slugify
\* ------------------------------------------------------------------------
\* str.strip()
Strip(s) ==
  LET solid == {q \in 1..Len(s) : ~IsSpace(s[q])}
  IN  IF solid = {} THEN << >>
      ELSE SubSeq(s, CHOOSE q \in solid : \A r \in solid : q <= r,
                     CHOOSE q \in solid : \A r \in solid : q >= r)

\* os.path.splitext(value)[0] of a name without directory separators: the
\* part before the last dot, unless only dots precede that dot
SplitExtRoot(s) ==
  LET dots == {q \in 1..Len(s) : s[q] = "."}
  IN  IF dots = {} THEN s
      ELSE LET d == CHOOSE q \in dots : \A r \in dots : q >= r
           IN  IF \E q \in 1..(d - 1) : s[q] # "." THEN SubSeq(s, 1, d - 1) ELSE s

\* re.sub(r'[^\w\s-]', '', value)
RECURSIVE KeepSlugChars(_)
KeepSlugChars(s) ==
  IF s = << >> THEN << >>
  ELSE IF IsWord(Head(s)) \/ IsSpace(Head(s)) \/ Head(s) = "-"
         THEN << Head(s) >> \o KeepSlugChars(Tail(s))
         ELSE KeepSlugChars(Tail(s))

\* [-\s_]
IsSeparator(c) == c = "-" \/ IsSpace(c) \/ c = "_"

\* re.sub(r'[-\s_]+', separator, value) with separator '_'
RECURSIVE CollapseSeparators(_, _)
CollapseSeparators(s, inRun) ==
  IF s = << >> THEN << >>
  ELSE IF IsSeparator(Head(s))
         THEN (IF inRun THEN << >> ELSE << "_" >>) \o CollapseSeparators(Tail(s), TRUE)
         ELSE << Head(s) >> \o CollapseSeparators(Tail(s), FALSE)

safe_slugify(value) ==
  CollapseSeparators(KeepSlugChars(SplitExtRoot(Lower(Strip(value)))), FALSE)

\* ------------------------------------------------------------------------
\* Text extraction of split_and_rename_pdf_dynamic
\* ------------------------------------------------------------------------
\* the length under which the Hybrid mode asks for OCR
MIN_TEXT_LEN == 80

FEDERAL_GOVERNMENT == << "F", "E", "D", "E", "R", "A", "L", " ", "G", "O", "V", "E", "R", "N", "M", "E", "N", "T" >>

\* re.search(r'\b(20\d{2})\b', candidate)
YearSearch(s) == \E p \in 1..Len(s) : Boundary(s, p - 1) /\ YearAt(s, p)

\* extract_text_page_ocr: the OCR text of the page, '' when OCR fails on it
extract_text_page_ocr(pg, failed) == IF failed THEN << >> ELSE pg.ocr

\* the test of line 358: the Hybrid branch calls extract_text_page_ocr
HybridCallsOcr(candidate) ==
  \/ Len(Strip(candidate)) < MIN_TEXT_LEN
  \/ ~(Contains(Upper(candidate), FEDERAL_GOVERNMENT) \/ YearSearch(candidate))

\* variant of the Hybrid branch that keeps the OCR text when the two texts
\* are equally long
HybridTextTiesToOcr(pg, failed) ==
  LET candidate == pg.embedded
  IN  IF HybridCallsOcr(candidate)
        THEN LET ocr_txt == extract_text_page_ocr(pg, failed)
             IN  IF Len(Strip(ocr_txt)) >= Len(Strip(candidate)) THEN ocr_txt
                 ELSE candidate
        ELSE candidate

\* the text the Hybrid branch keeps for a page
HybridText(pg, failed) ==
  LET candidate == pg.embedded
  IN  IF HybridCallsOcr(candidate)
        THEN LET ocr_txt == extract_text_page_ocr(pg, failed)
             IN  IF Len(Strip(ocr_txt)) > Len(Strip(candidate)) THEN ocr_txt
                 ELSE candidate
        ELSE candidate

\* variant of page_texts in which a failure of OCR on one page loses the texts
\* of the whole Full OCR pass
PageTextsLostOnFailure(pages, ocr_mode, fails) ==
  [j \in 1..Len(pages) |->
     IF ocr_mode = "Full OCR"
       THEN (IF fails # {} THEN << >> ELSE pages[j].ocr)
     ELSE IF ocr_mode = "Normal" THEN pages[j].embedded
     ELSE HybridText(pages[j], (j - 1) \in fails)]

\* page_texts; fails is the set of page indices on which OCR fails
PageTextsOf(pages, ocr_mode, fails) ==
  [j \in 1..Len(pages) |->
     IF ocr_mode = "Full OCR" THEN extract_text_page_ocr(pages[j], (j - 1) \in fails)
     ELSE IF ocr_mode = "Normal" THEN pages[j].embedded
     ELSE HybridText(pages[j], (j - 1) \in fails)]

\* ------------------------------------------------------------------------
\* Assembly of split_and_rename_pdf_dynamic
\* ------------------------------------------------------------------------
\* str(n) of a natural number
RECURSIVE IntToStr(_)
IntToStr(n) ==
  IF n < 10 THEN << DigitSeq[n + 1] >>
  ELSE IntToStr(n \div 10) \o << DigitSeq[(n % 10) + 1] >>

\* "\n".join(page_texts[pg] or "" for pg in group)
RECURSIVE JoinPages(_, _)
JoinPages(page_texts, group) ==
  IF group = << >> THEN << >>
  ELSE IF Len(group) = 1 THEN page_texts[group[1] + 1]
  ELSE page_texts[group[1] + 1] \o << "\n" >> \o JoinPages(page_texts, Tail(group))

\* a naming pattern is a sequence of pieces: literal text, or a replacement
\* field {name}
Lit(chars) == [field |-> FALSE, val |-> chars]

Field(name) == [field |-> TRUE, val |-> name]

F_YEAR == << "y", "e", "a", "r" >>

F_MONTH == << "m", "o", "n", "t", "h" >>

F_IPPIS == << "i", "p", "p", "i", "s" >>

\* the keys of the details dictionary
DetailKeys == {F_YEAR, F_MONTH, F_IPPIS}

\* naming_pattern.format(**details) raises KeyError
FormatRaises(naming_pattern) ==
  \E k \in 1..Len(naming_pattern) :
    naming_pattern[k].field /\ naming_pattern[k].val \notin DetailKeys

\* naming_pattern.format(**details) when it does not raise
RECURSIVE Format(_, _)
Format(naming_pattern, d) ==
  IF naming_pattern = << >> THEN << >>
  ELSE LET piece == Head(naming_pattern)
           out == IF ~piece.field THEN piece.val
                  ELSE IF piece.val = F_YEAR THEN d.year
                  ELSE IF piece.val = F_MONTH THEN d.month
                  ELSE d.ippis
       IN  out \o Format(Tail(naming_pattern), d)

DOT_PDF == << ".", "p", "d", "f" >>

NO_DETAILS_GROUP == << "_", "n", "o", "_", "d", "e", "t", "a", "i", "l", "s", "_", "g", "r", "o", "u", "p", "_" >>

PAYSLIP_GROUP == << "P", "a", "y", "s", "l", "i", "p", "_", "G", "r", "o", "u", "p", "_" >>

MISSING_DETAILS == << "_", "m", "i", "s", "s", "i", "n", "g", "_", "d", "e", "t", "a", "i", "l", "s", ".", "p", "d", "f" >>

\* f"[{original_file_prefix}] "
Bracketed(prefix) == << "[" >> \o prefix \o << "]", " " >>

\* the dictionary of one group: info after lines 373-388
InfoOf(group, d, g_idx, naming_pattern, prefix) ==
  IF d.some
    THEN [status |-> "Details Extracted", selected_for_upload |-> TRUE,
          original_file_name |-> prefix,
          some |-> TRUE, year |-> d.year, month |-> d.month, ippis |-> d.ippis,
          key |-> prefix \o << "_" >> \o d.year \o << "_" >> \o d.month
                  \o << "_" >> \o d.ippis \o << "_" >> \o IntToStr(g_idx),
          filename |-> Bracketed(prefix) \o Format(naming_pattern, d) \o DOT_PDF,
          temp_file_path |-> TRUE, pages |-> group,
          upload_status_detail |-> "", tries |-> 0]
    ELSE [status |-> "Details Missing", selected_for_upload |-> FALSE,
          original_file_name |-> prefix,
          some |-> FALSE, year |-> Absent, month |-> Absent, ippis |-> Absent,
          key |-> prefix \o NO_DETAILS_GROUP \o IntToStr(g_idx),
          filename |-> Bracketed(prefix) \o PAYSLIP_GROUP \o IntToStr(g_idx)
                       \o MISSING_DETAILS,
          temp_file_path |-> TRUE, pages |-> group,
          upload_status_detail |-> "", tries |-> 0]

\* the loop over enumerate(page_groups, start=1) from group g_idx on:
\* the list processed, or raised when naming_pattern.format raises
RECURSIVE AssembleFrom(_, _, _, _, _, _, _)
AssembleFrom(page_texts, page_groups, g_idx, ocr_mode, naming_pattern, prefix, processed) ==
  IF g_idx > Len(page_groups) THEN [raised |-> FALSE, processed |-> processed]
  ELSE LET group == page_groups[g_idx]
           d == get_details_from_text(JoinPages(page_texts, group), ocr_mode)
       IN  IF d.some /\ FormatRaises(naming_pattern)
             THEN [raised |-> TRUE, processed |-> processed]
             ELSE AssembleFrom(page_texts, page_groups, g_idx + 1, ocr_mode,
                               naming_pattern, prefix,
                               Append(processed,
                                      InfoOf(group, d, g_idx, naming_pattern, prefix)))

\* the list returned: processed, or [] from the except branch
split_and_rename_pdf_dynamic(pages, ocr_mode, naming_pattern, original_file_prefix, fails) ==
  LET page_texts == PageTextsOf(pages, ocr_mode, fails)
      page_groups == group_pages_by_payslip_from_texts(page_texts, Len(pages))
      run == AssembleFrom(page_texts, page_groups, 1, ocr_mode, naming_pattern,
                          original_file_prefix, << >>)
  IN  IF run.raised THEN << >> ELSE run.processed

\* all_processed_data: the results of the uploaded files, in their order;
\* fails[f] is the set of pages of file f on which OCR fails
RECURSIVE ProcessAll(_, _, _, _, _)
ProcessAll(files, f, ocr_mode, naming_pattern, fails) ==
  IF f > Len(files) THEN << >>
  ELSE split_and_rename_pdf_dynamic(files[f].pages, ocr_mode, naming_pattern,
                                    safe_slugify(files[f].name), fails[f])
       \o ProcessAll(files, f + 1, ocr_mode, naming_pattern, fails)

\* the flags set after processing (lines 481-489)
PostProcess(items, keys_log) ==
  [i \in 1..Len(items) |->
     IF items[i].key \in keys_log
       THEN [items[i] EXCEPT !.upload_status_detail = "Already uploaded",
                             !.selected_for_upload = FALSE]
       ELSE IF items[i].status # "Details Extracted"
              THEN [items[i] EXCEPT !.upload_status_detail = "Pending",
                                    !.selected_for_upload = FALSE]
              ELSE [items[i] EXCEPT !.upload_status_detail = "Pending"]]

\* ------------------------------------------------------------------------
\* Inputs of the extraction and grouping specifications
\* ------------------------------------------------------------------------
\* pieces the texts of the extraction specification are made of
Fragments ==
  { << "O", "C", "T", "-", "2", "0", "2", "3" >>,
    << "M", "a", "r", "c", "h", " ", "2", "0", "2", "3" >>,
    << "O", "C", "T" >>,
    << "2", "0", "2", "3" >>,
    << " " >>,
    << "1", "2", "3", "4", "5", "6" >>,
    << "7" >>,
    << "_" >>,
    << "x" >> }

\* all concatenations of at most n fragments
RECURSIVE TextsUpTo(_)
TextsUpTo(n) ==
  IF n = 0 THEN { << >> }
  ELSE LET shorter == TextsUpTo(n - 1)
       IN  shorter \cup {t \o f : t \in shorter, f \in Fragments}

OcrModes == {"Normal", "Hybrid", "Full OCR"}

\* page texts of the grouping specification: no text, the marker in upper and
\* in lower case with other text around it, text without the marker, and a
\* closing line of a payslip
GroupPageTexts ==
  { << >>,
    << "F", "E", "D", "E", "R", "A", "L", " ", "G", "O", "V", "E", "R", "N", "M", "E", "N", "T", " ", "O", "F", " ", "N", "I", "G", "E", "R", "I", "A" >>,
    << "x", " ", "f", "e", "d", "e", "r", "a", "l", " ", "g", "o", "v", "e", "r", "n", "m", "e", "n", "t", " ", "o", "f", " ", "n", "i", "g", "e", "r", "i", "a", " ", "7" >>,
    << "N", "e", "t", " ", "P", "a", "y" >>,
    << "E", "N", "D", " ", "O", "F", " ", "P", "A", "Y", "S", "L", "I", "P" >> }

\* all sequences of at most n page texts
RECURSIVE PageSeqsUpTo(_)
PageSeqsUpTo(n) ==
  IF n = 0 THEN { << >> }
  ELSE LET shorter == PageSeqsUpTo(n - 1)
       IN  shorter \cup {Append(ps, t) : ps \in shorter, t \in GroupPageTexts}

\* ------------------------------------------------------------------------
\* Inputs of the application specification
\* ------------------------------------------------------------------------
\* a page of a source: its embedded text layer and what OCR reads on it
Page(embedded, ocr) == [embedded |-> embedded, ocr |-> ocr]

T_START_JAN == << "F", "E", "D", "E", "R", "A", "L", " ", "G", "O", "V", "E", "R", "N", "M", "E", "N", "T", " ", "O", "F", " ", "N", "I", "G", "E", "R", "I", "A", " ", "J", "A", "N", " ", "2", "0", "2", "4", " ", "1", "1", "1", "1", "1", "1" >>

T_NET_PAY == << "N", "e", "t", " ", "P", "a", "y" >>

T_END == << "E", "N", "D", " ", "O", "F", " ", "P", "A", "Y", "S", "L", "I", "P" >>

T_START_OCT == << "F", "E", "D", "E", "R", "A", "L", " ", "G", "O", "V", "E", "R", "N", "M", "E", "N", "T", " ", "O", "F", " ", "N", "I", "G", "E", "R", "I", "A", " ", "O", "c", "t", "o", "b", "e", "r", " ", "2", "0", "2", "3", " ", "1", "2", "3", "4", "5", "6" >>

T_START_NOV == << "F", "E", "D", "E", "R", "A", "L", " ", "G", "O", "V", "E", "R", "N", "M", "E", "N", "T", " ", "O", "F", " ", "N", "I", "G", "E", "R", "I", "A", " ", "N", "o", "v", "e", "m", "b", "e", "r", " ", "2", "0", "2", "3", " ", "6", "5", "4", "3", "2", "1" >>

\* three pages: the start marker with 'JAN 2024 111111', a page without
\* marker, a closing page without identifier
FileA ==
  [name |-> << "A", ".", "p", "d", "f" >>,
   pages |-> << Page(T_START_JAN, T_START_JAN), Page(T_NET_PAY, T_NET_PAY),
                Page(T_END, T_END) >>]

\* two payslips of one page each, the second one scanned (no text layer)
FileB ==
  [name |-> << "b", " ", "1", ".", "p", "d", "f" >>,
   pages |-> << Page(T_START_OCT, T_START_OCT), Page(<< >>, T_START_NOV) >>]

\* a page without marker, then two payslips of one page each
FileC ==
  [name |-> << "S", "l", "i", "p", "s", "-", "C", ".", "P", "D", "F" >>,
   pages |-> << Page(T_NET_PAY, T_NET_PAY), Page(T_START_OCT, T_START_OCT),
                Page(T_START_NOV, T_START_NOV) >>]

T_OCT_PLAIN == << "O", "c", "t", "o", "b", "e", "r", " ", "2", "0", "2", "3", " ", "1", "2", "3", "4", "5", "6" >>

\* two pages without start marker: a page without details, then a payslip
FileD ==
  [name |-> << "D", ".", "p", "d", "f" >>,
   pages |-> << Page(T_NET_PAY, T_NET_PAY), Page(T_OCT_PLAIN, T_OCT_PLAIN) >>]

\* the pages of FileB under a name with the same slug
FileE ==
  [name |-> << "b", "_", "1", ".", "p", "d", "f" >>,
   pages |-> << Page(T_START_OCT, T_START_OCT), Page(<< >>, T_START_NOV) >>]

\* what the user may put into the uploader
Uploads ==
  { << FileA >>, << FileB >>, << FileC >>, << FileD >>, << FileB, FileE >> }

\* the uploads of the application specification
SessionUploads == { << FileB >> }

\* the default of naming_pattern: "{year} {month} {ippis}"
DEFAULT_PATTERN ==
  << Field(F_YEAR), Lit(<< " " >>), Field(F_MONTH), Lit(<< " " >>), Field(F_IPPIS) >>

\* "{ippis}.pdf"
PATTERN_PDF == << Field(F_IPPIS), Lit(DOT_PDF) >>

\* "{name} {year}": a replacement field that details does not have
PATTERN_UNKNOWN == << Field(<< "n", "a", "m", "e" >>), Lit(<< " " >>), Field(F_YEAR) >>

NamingPatterns == {DEFAULT_PATTERN, PATTERN_PDF, PATTERN_UNKNOWN}

\* the naming patterns of the application specification
SessionPatterns == {DEFAULT_PATTERN, PATTERN_UNKNOWN}

\* OCR fails on no page
NoFails(files) == [f \in 1..Len(files) |-> {}]

\* all choices of the pages of each file on which OCR fails
OcrFailures(files) ==
  [1..Len(files) -> SUBSET (0..2)] \cap
    {fails \in [1..Len(files) -> SUBSET (0..2)] :
       \A f \in 1..Len(files) : fails[f] \subseteq 0..(Len(files[f].pages) - 1)}

\* all_processed_data of every upload of the application specification under
\* every preference, when OCR fails on no page
ProcessedTable ==
  { [files |-> files, ocr_mode |-> ocr_mode, naming_pattern |-> naming_pattern,
     result |-> ProcessAll(files, 1, ocr_mode, naming_pattern, NoFails(files))] :
      files \in SessionUploads, ocr_mode \in OcrModes,
      naming_pattern \in SessionPatterns }


\* ------------------------------------------------------------------------
\* State
\* ------------------------------------------------------------------------
VARIABLES
  text,        \* extraction: the merged text handed to get_details_from_text
  ocrMode,     \* extraction: the ocr_mode argument
  details,     \* extraction: the value returned
  tstep,       \* extraction: "input" before the call, "done" after it
  pageTexts,   \* grouping: page_texts
  groups,      \* grouping: the value returned
  gstep,       \* grouping: "input" before the call, "done" after it
  driveLog,                 \* the keys in uploaded_files.json on Google Drive
  uploaded_file_keys_log,   \* st.session_state.uploaded_file_keys_log
  loadedLog,                \* the keys the session loaded at its start
  ledger_loaded,            \* load_log_from_google_drive of this session did
                            \* not fail (search, download and parse)
  processed_payslips_data,  \* st.session_state.processed_payslips_data
  uploaded_files,           \* the files in the uploader
  user_prefs,               \* naming_pattern and ocr_mode of user_prefs
  ocr_fails,                \* per uploaded file, the pages on which OCR fails
  ran,                      \* the process button was pressed for these files
  pc,                       \* "idle", or "upload" inside the upload batch
  selected,                 \* upload batch: indices of the selected items
  idx,                      \* upload batch: position in selected (from 1)
  attempt,                  \* upload batch: attempt of the retry loop
  current_log_keys,         \* upload batch: current_log_keys
  log_update_needed,        \* upload batch: log_update_needed
  slept,                    \* upload batch: the time the last pass of the
                            \* retry loop slept, 0 when it did not sleep
  pipeline,                 \* what processing returns for each upload and
                            \* preference: it is a function of them alone, and
                            \* is worked out once, in the initial state
  page,          \* Hybrid branch: the embedded text and the OCR text of a page
  ocr_failed,    \* Hybrid branch: OCR fails on the page
  kept,          \* Hybrid branch: the text appended to page_texts
  ocr_called,    \* Hybrid branch: extract_text_page_ocr was called
  hstep,         \* Hybrid branch: "input" before the page, "done" after it
  UPLOAD_LOG,               \* 33.py: the keys in the file uploaded_files.json
  drive_files,              \* 33.py: the keys of the files created on Drive
  matched_pdfs_with_keys,   \* 33.py: the keys of matched_pdfs_with_keys
  uploaded_file_keys,       \* 33.py: uploaded_file_keys of the run
  status_data,              \* 33.py: the status of each row of status_data
  completed,                \* 33.py: completed, the items the loop is done with
  run33,                    \* 33.py: "idle", or "loop" inside the upload loop
  sessions,      \* concurrent sessions: st.session_state and the locals of
                 \* the upload batch of each browser session
  transfers      \* concurrent sessions: the pairs of a session and a key
                 \* whose file the session has created on Drive

textVars == << text, ocrMode, details, tstep >>

groupVars == << pageTexts, groups, gstep >>

batchVars ==
  << pc, selected, idx, attempt, current_log_keys, log_update_needed, slept >>

appVars ==
  << driveLog, uploaded_file_keys_log, loadedLog, ledger_loaded,
     processed_payslips_data, uploaded_files, user_prefs, ocr_fails, ran, pc, selected, idx, attempt,
     current_log_keys, log_update_needed, slept, pipeline >>

hybridVars == << page, ocr_failed, kept, ocr_called, hstep >>

legacyVars ==
  << UPLOAD_LOG, drive_files, matched_pdfs_with_keys, uploaded_file_keys,
     status_data, completed, run33 >>

sessionVars == << sessions, transfers >>

vars ==
  << textVars, groupVars, appVars, hybridVars, legacyVars, sessionVars >>

TextIdle ==
  /\ text = << >>
  /\ ocrMode = "Hybrid"
  /\ details = NoDetails
  /\ tstep = "input"

GroupIdle ==
  /\ pageTexts = << >>
  /\ groups = << >>
  /\ gstep = "input"

HybridIdle ==
  /\ page = [embedded |-> << >>, ocr |-> << >>]
  /\ ocr_failed = FALSE
  /\ kept = << >>
  /\ ocr_called = FALSE
  /\ hstep = "input"

\* 33.py: no log file, nothing on Drive, no run
LegacyIdle ==
  /\ UPLOAD_LOG = {}
  /\ drive_files = {}
  /\ matched_pdfs_with_keys = << >>
  /\ uploaded_file_keys = {}
  /\ status_data = << >>
  /\ completed = 0
  /\ run33 = "idle"

\* the browser sessions
SessionIds == {1, 2}

\* no browser session is open
SessionsIdle ==
  /\ sessions = [s \in SessionIds |->
                   [phase |-> "closed", ledger_loaded |-> FALSE,
                    uploaded_file_keys_log |-> {}, selected |-> << >>,
                    idx |-> 1, current_log_keys |-> {},
                    log_update_needed |-> FALSE, log_written |-> FALSE]]
  /\ transfers = {}

\* no upload batch is running
BatchIdle ==
  /\ pc = "idle"
  /\ selected = << >>
  /\ idx = 1
  /\ attempt = 1
  /\ current_log_keys = {}
  /\ log_update_needed = FALSE
  /\ slept = 0

\* the entry of pipeline for these files and preferences
ProcessedOf(files, ocr_mode, naming_pattern) ==
  (CHOOSE r \in pipeline :
     /\ r.files = files
     /\ r.ocr_mode = ocr_mode
     /\ r.naming_pattern = naming_pattern).result

\* all_processed_data of the process handler (lines 453-475): the entry of
\* pipeline when there is one for this run, the computation itself otherwise
AllProcessedData(files, ocr_mode, naming_pattern, fails) ==
  IF fails = NoFails(files)
     /\ \E r \in pipeline : /\ r.files = files
                             /\ r.ocr_mode = ocr_mode
                             /\ r.naming_pattern = naming_pattern
    THEN ProcessedOf(files, ocr_mode, naming_pattern)
    ELSE ProcessAll(files, 1, ocr_mode, naming_pattern, fails)

\* a first session on a Drive folder without a log file, nothing uploaded
AppIdle ==
  /\ driveLog = {}
  /\ uploaded_file_keys_log = {}
  /\ loadedLog = {}
  /\ ledger_loaded = TRUE
  /\ processed_payslips_data = << >>
  /\ uploaded_files = << >>
  /\ user_prefs = [naming_pattern |-> DEFAULT_PATTERN, ocr_mode |-> "Hybrid"]
  /\ ocr_fails = << >>
  /\ ran = FALSE
  /\ BatchIdle

\* ------------------------------------------------------------------------
\* Extraction specification: one call of get_details_from_text
\* ------------------------------------------------------------------------
TextInit ==
  /\ text \in TextsUpTo(MaxFrags)
  /\ ocrMode = "Hybrid"
  /\ details = NoDetails
  /\ tstep = "input"
  /\ GroupIdle
  /\ AppIdle
  /\ pipeline = {}
  /\ HybridIdle
  /\ LegacyIdle
  /\ SessionsIdle

Extract(mode) ==
  /\ tstep = "input"
  /\ ocrMode' = mode
  /\ details' = get_details_from_text(text, mode)
  /\ tstep' = "done"
  /\ UNCHANGED << text, groupVars, appVars, hybridVars, legacyVars, sessionVars >>

TextNext == \E mode \in OcrModes : Extract(mode)

SpecText == TextInit /\ [][TextNext]_vars

\* ------------------------------------------------------------------------
\* Year specification: one call of get_details_from_text on texts with
\* several years
\* ------------------------------------------------------------------------
\* pieces of texts in which a year stands before, inside and after the period
YearFragments ==
  { << "2", "0", "2", "2", " " >>,
    << "O", "C", "T", "-", "2", "0", "2", "3" >>,
    << "M", "a", "r", "c", "h", " ", "2", "0", "2", "1" >>,
    << " " >>,
    << "1", "2", "3", "4", "5", "6" >>,
    << "2", "0", "x" >> }

\* all concatenations of at most n of these pieces
RECURSIVE YearTextsUpTo(_)
YearTextsUpTo(n) ==
  IF n = 0 THEN { << >> }
  ELSE LET shorter == YearTextsUpTo(n - 1)
       IN  shorter \cup {t \o f : t \in shorter, f \in YearFragments}

YearInit ==
  /\ text \in YearTextsUpTo(MaxFrags)
  /\ ocrMode = "Hybrid"
  /\ details = NoDetails
  /\ tstep = "input"
  /\ GroupIdle
  /\ AppIdle
  /\ pipeline = {}
  /\ HybridIdle
  /\ LegacyIdle
  /\ SessionsIdle

SpecYear == YearInit /\ [][TextNext]_vars

\* ------------------------------------------------------------------------
\* Grouping specification: one call of group_pages_by_payslip_from_texts
\* ------------------------------------------------------------------------
GroupInit ==
  /\ pageTexts \in PageSeqsUpTo(MaxPages)
  /\ groups = << >>
  /\ gstep = "input"
  /\ TextIdle
  /\ AppIdle
  /\ pipeline = {}
  /\ HybridIdle
  /\ LegacyIdle
  /\ SessionsIdle

Group ==
  /\ gstep = "input"
  /\ groups' = group_pages_by_payslip_from_texts(pageTexts, Len(pageTexts))
  /\ gstep' = "done"
  /\ UNCHANGED << pageTexts, textVars, appVars, hybridVars, legacyVars, sessionVars >>

GroupNext == Group

SpecGroup == GroupInit /\ [][GroupNext]_vars

\* ------------------------------------------------------------------------
\* Application specification: sessions of the Streamlit script
\* ------------------------------------------------------------------------
MAX_RETRIES == 5

FAILED_FINAL == "Final Failure (Retry needed)"

MISSING_FILE == "Final Failure (Missing File)"

\* every rerun with processed payslips selects the Final Failure items again
\* (lines 499-501)
Reselect(items) ==
  [i \in 1..Len(items) |->
     IF items[i].upload_status_detail = FAILED_FINAL
       THEN [items[i] EXCEPT !.selected_for_upload = TRUE]
       ELSE items[i]]

\* selected = [item for item in processed_payslips_data if item['selected_for_upload']],
\* as the indices of the items
RECURSIVE SelectedFrom(_, _)
SelectedFrom(items, i) ==
  IF i > Len(items) THEN << >>
  ELSE (IF items[i].selected_for_upload THEN << i >> ELSE << >>)
       \o SelectedFrom(items, i + 1)

\* variant of the last-attempt test that gives up one attempt early
GivesUpEarly(n) == ~(n + 1 < MAX_RETRIES)

\* not (attempt < MAX_RETRIES): attempt n was the last one
GivesUp(n) == ~(n < MAX_RETRIES)

RETRY_DELAY == 2

\* the ceiling of the wait (line 583)
MAX_WAIT == 30

\* variant of the wait that doubles once more before each attempt
WaitDoubledAgain(n) ==
  IF RETRY_DELAY * (2 ^ n) > MAX_WAIT THEN MAX_WAIT ELSE RETRY_DELAY * (2 ^ n)

\* wait_time after the failure of attempt n (lines 582-583)
wait_time(n) ==
  IF RETRY_DELAY * (2 ^ (n - 1)) > MAX_WAIT
    THEN MAX_WAIT
    ELSE RETRY_DELAY * (2 ^ (n - 1))

AppInit ==
  /\ AppIdle
  /\ TextIdle
  /\ GroupIdle
  /\ HybridIdle
  /\ LegacyIdle
  /\ SessionsIdle
  /\ pipeline = ProcessedTable

\* the user changes the files in the uploader: the reset of lines 439-447
\* (new_file_uploaded is uploaded_files # << >> of the previous rerun)
SetFiles(files) ==
  /\ pc = "idle"
  /\ files # uploaded_files
  /\ uploaded_files' = files
  /\ ocr_fails' = NoFails(files)
  /\ IF (files # << >>) # (uploaded_files # << >>)
       THEN processed_payslips_data' = << >> /\ ran' = FALSE
       ELSE processed_payslips_data' = Reselect(processed_payslips_data)
            /\ UNCHANGED ran
  /\ UNCHANGED << driveLog, uploaded_file_keys_log, loadedLog, ledger_loaded, user_prefs,
                  batchVars, pipeline,
                  textVars, groupVars, hybridVars, legacyVars, sessionVars >>

\* the process button, pressed with the preferences of the sidebar set to
\* naming_pattern and ocr_mode (lines 449-489)
Process(naming_pattern, ocr_mode) ==
  /\ pc = "idle"
  /\ uploaded_files # << >>
  /\ user_prefs' = [naming_pattern |-> naming_pattern, ocr_mode |-> ocr_mode]
  /\ processed_payslips_data' =
       Reselect(PostProcess(AllProcessedData(uploaded_files, ocr_mode,
                                             naming_pattern, ocr_fails),
                            uploaded_file_keys_log))
  /\ ran' = TRUE
  /\ UNCHANGED << driveLog, uploaded_file_keys_log, loadedLog, ledger_loaded, uploaded_files,
                  ocr_fails, batchVars, pipeline,
                  textVars, groupVars, hybridVars, legacyVars, sessionVars >>

\* the button "Select All Valid for Upload / Retry" (lines 504-507)
SelectAllValid ==
  /\ pc = "idle"
  /\ processed_payslips_data # << >>
  /\ processed_payslips_data' =
       [i \in 1..Len(processed_payslips_data) |->
          LET item == Reselect(processed_payslips_data)[i]
          IN  IF item.upload_status_detail # "Already uploaded"
                 /\ item.status = "Details Extracted"
                THEN [item EXCEPT !.selected_for_upload = TRUE]
                ELSE item]
  /\ UNCHANGED << driveLog, uploaded_file_keys_log, loadedLog, ledger_loaded, uploaded_files,
                  user_prefs, ocr_fails, ran, batchVars, pipeline,
                  textVars, groupVars, hybridVars, legacyVars, sessionVars >>

\* the button "Deselect All for Upload" (lines 508-509)
DeselectAll ==
  /\ pc = "idle"
  /\ processed_payslips_data # << >>
  /\ processed_payslips_data' =
       [i \in 1..Len(processed_payslips_data) |->
          [processed_payslips_data[i] EXCEPT !.selected_for_upload = FALSE]]
  /\ UNCHANGED << driveLog, uploaded_file_keys_log, loadedLog, ledger_loaded, uploaded_files,
                  user_prefs, ocr_fails, ran, batchVars, pipeline,
                  textVars, groupVars, hybridVars, legacyVars, sessionVars >>

\* the user ticks or unticks row i of the data editor (lines 512-521)
EditSelection(i, value) ==
  /\ pc = "idle"
  /\ i \in 1..Len(processed_payslips_data)
  /\ processed_payslips_data' =
       [Reselect(processed_payslips_data) EXCEPT ![i].selected_for_upload = value]
  /\ UNCHANGED << driveLog, uploaded_file_keys_log, loadedLog, ledger_loaded, uploaded_files,
                  user_prefs, ocr_fails, ran, batchVars, pipeline,
                  textVars, groupVars, hybridVars, legacyVars, sessionVars >>

\* the button "Upload Selected to Google Drive": the batch starts
\* (lines 527-541)
UploadBegin ==
  /\ pc = "idle"
  /\ processed_payslips_data # << >>
  /\ SelectedFrom(Reselect(processed_payslips_data), 1) # << >>
  /\ processed_payslips_data' = Reselect(processed_payslips_data)
  /\ selected' = SelectedFrom(Reselect(processed_payslips_data), 1)
  /\ pc' = "upload"
  /\ idx' = 1
  /\ attempt' = 1
  /\ current_log_keys' = uploaded_file_keys_log
  /\ log_update_needed' = FALSE
  /\ slept' = 0
  /\ UNCHANGED << driveLog, uploaded_file_keys_log, loadedLog, ledger_loaded, uploaded_files,
                  user_prefs, ocr_fails, ran, pipeline,
                  textVars, groupVars, hybridVars, legacyVars, sessionVars >>

\* variant of the missing-file branch that leaves the item selected
UploadMissingFileStaysSelected ==
  /\ pc = "upload"
  /\ idx <= Len(selected)
  /\ ~processed_payslips_data[selected[idx]].temp_file_path
  /\ processed_payslips_data' =
       [processed_payslips_data EXCEPT
          ![selected[idx]].upload_status_detail = MISSING_FILE]
  /\ idx' = idx + 1
  /\ UNCHANGED << driveLog, uploaded_file_keys_log, loadedLog, ledger_loaded, uploaded_files,
                  user_prefs, ocr_fails, ran, pc, selected, attempt, current_log_keys,
                  log_update_needed, slept, pipeline,
                  textVars, groupVars, hybridVars, legacyVars, sessionVars >>

\* the item has no temporary file any more (lines 553-559)
UploadMissingFile ==
  /\ pc = "upload"
  /\ idx <= Len(selected)
  /\ ~processed_payslips_data[selected[idx]].temp_file_path
  /\ processed_payslips_data' =
       [processed_payslips_data EXCEPT
          ![selected[idx]].upload_status_detail = MISSING_FILE,
          ![selected[idx]].selected_for_upload = FALSE]
  /\ idx' = idx + 1
  /\ UNCHANGED << driveLog, uploaded_file_keys_log, loadedLog, ledger_loaded, uploaded_files,
                  user_prefs, ocr_fails, ran, pc, selected, attempt, current_log_keys,
                  log_update_needed, slept, pipeline,
                  textVars, groupVars, hybridVars, legacyVars, sessionVars >>

\* one pass of the retry loop: upload_file_to_google_drive returns (ok) or
\* raises (lines 561-591); tries counts the calls of a delivery that have
\* raised, and is 0 again once the delivery has succeeded
UploadAttempt(ok) ==
  /\ pc = "upload"
  /\ idx <= Len(selected)
  /\ processed_payslips_data[selected[idx]].temp_file_path
  /\ LET i == selected[idx]
         item == processed_payslips_data[i]
     IN  IF ok
           THEN /\ processed_payslips_data' =
                     [processed_payslips_data EXCEPT
                        ![i] = [item EXCEPT !.upload_status_detail = "Uploaded",
                                            !.selected_for_upload = FALSE,
                                            !.temp_file_path = FALSE,
                                            !.tries = 0]]
                /\ current_log_keys' = current_log_keys \cup {item.key}
                /\ log_update_needed' = TRUE
                /\ idx' = idx + 1
                /\ attempt' = 1
                /\ slept' = 0
           ELSE IF ~GivesUp(attempt)
                  THEN /\ processed_payslips_data' =
                            [processed_payslips_data EXCEPT
                               ![i] = [item EXCEPT !.tries = attempt]]
                       /\ attempt' = attempt + 1
                       /\ slept' = wait_time(attempt)
                       /\ UNCHANGED << idx, current_log_keys, log_update_needed >>
                  ELSE /\ processed_payslips_data' =
                            [processed_payslips_data EXCEPT
                               ![i] = [item EXCEPT
                                         !.upload_status_detail = FAILED_FINAL,
                                         !.selected_for_upload = TRUE,
                                         !.tries = attempt]]
                       /\ idx' = idx + 1
                       /\ attempt' = 1
                       /\ slept' = 0
                       /\ UNCHANGED << current_log_keys, log_update_needed >>
  /\ UNCHANGED << driveLog, uploaded_file_keys_log, loadedLog, ledger_loaded, uploaded_files,
                  user_prefs, ocr_fails, ran, pc, selected, pipeline,
                  textVars, groupVars, hybridVars, legacyVars, sessionVars >>

\* after the loop: the ledger is written to Drive, which may fail and is
\* then only logged, and the session set is replaced (lines 593-597)
UploadFinish(written) ==
  /\ pc = "upload"
  /\ idx > Len(selected)
  /\ IF log_update_needed
       THEN /\ driveLog' = IF written THEN current_log_keys ELSE driveLog
            /\ uploaded_file_keys_log' = current_log_keys
       ELSE UNCHANGED << driveLog, uploaded_file_keys_log >>
  /\ pc' = "idle"
  /\ selected' = << >>
  /\ idx' = 1
  /\ attempt' = 1
  /\ current_log_keys' = {}
  /\ log_update_needed' = FALSE
  /\ slept' = 0
  /\ UNCHANGED << loadedLog, ledger_loaded, processed_payslips_data,
                  uploaded_files, user_prefs, ocr_fails,
                  ran, pipeline,
                  textVars, groupVars, hybridVars, legacyVars, sessionVars >>

\* the session ends at any point (the run stops, the page is closed or
\* reloaded) and a new one starts: st.session_state is empty, the ledger is
\* loaded from Drive, or set() when the load fails (lines 249-273, 414-423);
\* the preferences come back from PREF_FILE
NewSession(loaded) ==
  /\ uploaded_file_keys_log' = IF loaded THEN driveLog ELSE {}
  /\ loadedLog' = IF loaded THEN driveLog ELSE {}
  /\ ledger_loaded' = loaded
  /\ processed_payslips_data' = << >>
  /\ uploaded_files' = << >>
  /\ ocr_fails' = << >>
  /\ ran' = FALSE
  /\ pc' = "idle"
  /\ selected' = << >>
  /\ idx' = 1
  /\ attempt' = 1
  /\ current_log_keys' = {}
  /\ log_update_needed' = FALSE
  /\ slept' = 0
  /\ UNCHANGED << driveLog, user_prefs, pipeline,
                  textVars, groupVars, hybridVars, legacyVars, sessionVars >>

Next ==
  \/ \E files \in SessionUploads \cup { << >> } : SetFiles(files)
  \/ \E naming_pattern \in SessionPatterns, ocr_mode \in OcrModes :
       Process(naming_pattern, ocr_mode)
  \/ SelectAllValid
  \/ DeselectAll
  \/ \E i \in 1..Len(processed_payslips_data), value \in BOOLEAN :
       EditSelection(i, value)
  \/ UploadBegin
  \/ UploadMissingFile
  \/ \E ok \in BOOLEAN : UploadAttempt(ok)
  \/ \E written \in BOOLEAN : UploadFinish(written)
  \/ \E loaded \in BOOLEAN : NewSession(loaded)

Spec == AppInit /\ [][Next]_vars

\* ------------------------------------------------------------------------
\* Processing specification: the process handler on each upload, with every
\* choice of the pages on which OCR fails, in a first session
\* ------------------------------------------------------------------------
PipelineInit ==
  /\ uploaded_files \in Uploads
  /\ ocr_fails \in OcrFailures(uploaded_files)
  /\ driveLog = {}
  /\ uploaded_file_keys_log = {}
  /\ loadedLog = {}
  /\ ledger_loaded = TRUE
  /\ processed_payslips_data = << >>
  /\ user_prefs = [naming_pattern |-> DEFAULT_PATTERN, ocr_mode |-> "Hybrid"]
  /\ ran = FALSE
  /\ BatchIdle
  /\ pipeline = {}
  /\ HybridIdle
  /\ LegacyIdle
  /\ SessionsIdle
  /\ TextIdle
  /\ GroupIdle

PipelineNext ==
  \E naming_pattern \in NamingPatterns, ocr_mode \in OcrModes :
    Process(naming_pattern, ocr_mode)

SpecPipeline == PipelineInit /\ [][PipelineNext]_vars

\* ------------------------------------------------------------------------
\* Hybrid specification: one page through the Hybrid branch of
\* split_and_rename_pdf_dynamic (lines 356-361)
\* ------------------------------------------------------------------------
\* n times the character c
Pad(c, n) == [j \in 1..n |-> c]

\* embedded texts around the length MIN_TEXT_LEN, with and without the
\* marker and a year
EmbeddedTexts ==
  { << >>,
    T_NET_PAY,
    FEDERAL_GOVERNMENT \o Pad("x", MIN_TEXT_LEN - Len(FEDERAL_GOVERNMENT)),
    FEDERAL_GOVERNMENT \o Pad("x", MIN_TEXT_LEN - Len(FEDERAL_GOVERNMENT) - 1),
    FEDERAL_GOVERNMENT \o Pad("x", MIN_TEXT_LEN - Len(FEDERAL_GOVERNMENT) - 1)
      \o Pad(" ", 3),
    Lower(FEDERAL_GOVERNMENT) \o Pad("x", MIN_TEXT_LEN - Len(FEDERAL_GOVERNMENT)),
    Pad("x", MIN_TEXT_LEN),
    << "2", "0", "2", "4", " " >> \o Pad("x", MIN_TEXT_LEN - 5),
    << "x", "2", "0", "2", "4" >> \o Pad("x", MIN_TEXT_LEN - 5) }

\* OCR texts shorter than, as long as and longer than the embedded texts
OcrTexts ==
  { << >>,
    Pad("y", MIN_TEXT_LEN - 1),
    Pad("y", MIN_TEXT_LEN),
    Pad("y", MIN_TEXT_LEN + 1),
    Pad(" ", 5) \o Pad("y", MIN_TEXT_LEN - 1),
    Pad("y", MIN_TEXT_LEN + 3) }

HybridInit ==
  /\ page \in {Page(embedded, ocr) : embedded \in EmbeddedTexts, ocr \in OcrTexts}
  /\ ocr_failed \in BOOLEAN
  /\ kept = << >>
  /\ ocr_called = FALSE
  /\ hstep = "input"
  /\ LegacyIdle
  /\ SessionsIdle
  /\ AppIdle
  /\ TextIdle
  /\ GroupIdle
  /\ pipeline = {}

\* one pass of the loop of lines 356-361
HybridPage ==
  /\ hstep = "input"
  /\ ocr_called' = HybridCallsOcr(page.embedded)
  /\ kept' = HybridText(page, ocr_failed)
  /\ hstep' = "done"
  /\ UNCHANGED << page, ocr_failed, textVars, groupVars, appVars, legacyVars, sessionVars >>

HybridNext == HybridPage

SpecHybrid == HybridInit /\ [][HybridNext]_vars

\* ------------------------------------------------------------------------
\* 33.py specification: the runs of the upload loop of 33.py (lines 321-394),
\* which keeps its ledger in the local file uploaded_files.json
\* ------------------------------------------------------------------------
\* identity keys of 33.py: f"{year}_{month}_{ippis_number}" (line 262)
Keys33 == {"2023_10_123456", "2023_11_654321"}

\* the matched payslips of a processed file: one or two pages with details
Matched33 == {<< a >> : a \in Keys33} \cup {<< a, b >> : a, b \in Keys33}

\* what a call of upload_file_to_google_drive of 33.py can do (lines 175-189):
\* the file is created; files().create raises, which the function catches
\* and reports with st.error; or the call raises before its try block
UploadOutcomes == {"created", "create_raises", "raises"}

\* the row of status_data the loop updates: the first one with the filename
\* of the item (the filename is a function of the key within a run)
RowOf(keys, k) ==
  CHOOSE j \in 1..Len(keys) :
    keys[j] = keys[k] /\ \A h \in 1..(j - 1) : keys[h] # keys[k]

\* upload_file_to_google_drive raises to the loop
CallRaises(outcome) == outcome = "raises"

LegacyInit ==
  /\ LegacyIdle
  /\ SessionsIdle
  /\ HybridIdle
  /\ AppIdle
  /\ TextIdle
  /\ GroupIdle
  /\ pipeline = {}

\* the process button with a file that has matched payslips: the log file is
\* read and the status table set up (lines 327-344)
Run33Begin(keys, corrupted) ==
  /\ run33 = "idle"
  /\ matched_pdfs_with_keys' = keys
  /\ uploaded_file_keys' = IF corrupted THEN {} ELSE UPLOAD_LOG
  /\ status_data' =
       [j \in 1..Len(keys) |->
          IF keys[j] \in (IF corrupted THEN {} ELSE UPLOAD_LOG)
            THEN "Skipped (Already Uploaded)" ELSE "Pending Upload"]
  /\ completed' = 0
  /\ run33' = "loop"
  /\ UNCHANGED << UPLOAD_LOG, drive_files, textVars, groupVars, appVars,
                  hybridVars, sessionVars >>

\* an item whose key is in uploaded_file_keys is passed over (lines 355-359)
Run33Skip ==
  /\ run33 = "loop"
  /\ completed < Len(matched_pdfs_with_keys)
  /\ matched_pdfs_with_keys[completed + 1] \in uploaded_file_keys
  /\ completed' = completed + 1
  /\ UNCHANGED << UPLOAD_LOG, drive_files, matched_pdfs_with_keys,
                  uploaded_file_keys, status_data, run33,
                  textVars, groupVars, appVars, hybridVars, sessionVars >>

\* an item is uploaded (lines 361-383)
Run33Upload(outcome) ==
  /\ run33 = "loop"
  /\ completed < Len(matched_pdfs_with_keys)
  /\ matched_pdfs_with_keys[completed + 1] \notin uploaded_file_keys
  /\ LET key == matched_pdfs_with_keys[completed + 1]
         row == RowOf(matched_pdfs_with_keys, completed + 1)
     IN  /\ drive_files' = IF outcome = "created" THEN drive_files \cup {key}
                           ELSE drive_files
         /\ IF CallRaises(outcome)
              THEN /\ status_data' = [status_data EXCEPT ![row] = "Failed"]
                   /\ UNCHANGED uploaded_file_keys
              ELSE /\ status_data' =
                        [status_data EXCEPT ![row] = "Uploaded Successfully"]
                   /\ uploaded_file_keys' = uploaded_file_keys \cup {key}
  /\ completed' = completed + 1
  /\ UNCHANGED << UPLOAD_LOG, matched_pdfs_with_keys, run33,
                  textVars, groupVars, appVars, hybridVars, sessionVars >>

\* after the loop the log file is written (lines 385-387)
Run33End ==
  /\ run33 = "loop"
  /\ completed = Len(matched_pdfs_with_keys)
  /\ UPLOAD_LOG' = uploaded_file_keys
  /\ run33' = "idle"
  /\ UNCHANGED << drive_files, matched_pdfs_with_keys, uploaded_file_keys,
                  status_data, completed, textVars, groupVars, appVars,
                  hybridVars, sessionVars >>

LegacyNext ==
  \/ \E keys \in Matched33, corrupted \in BOOLEAN : Run33Begin(keys, corrupted)
  \/ Run33Skip
  \/ \E outcome \in UploadOutcomes : Run33Upload(outcome)
  \/ Run33End

Spec33 == LegacyInit /\ [][LegacyNext]_vars

\* ------------------------------------------------------------------------
\* Sessions specification: two browser sessions of 33OCR.py on one Drive
\* folder, each with its own st.session_state, sharing uploaded_files.json
\* ------------------------------------------------------------------------
\* canonical keys of the documents of a source file (line 379)
SessionKeys == {"A_2023_10_123456_1", "A_2023_11_654321_2"}

\* the keys of the documents a session has after processing, in order
SessionDocuments ==
  { << "A_2023_10_123456_1" >>, << "A_2023_11_654321_2" >>,
    << "A_2023_10_123456_1", "A_2023_11_654321_2" >> }

\* the documents left selected by lines 481-489: those whose key is not in
\* the session's uploaded_file_keys_log
SelectedKeys(keys, keys_log) == SelectSeq(keys, LAMBDA k : k \notin keys_log)

\* what no step of a concurrent session changes
sessionFrame ==
  << uploaded_file_keys_log, loadedLog, ledger_loaded, processed_payslips_data,
     uploaded_files, user_prefs, ocr_fails, ran, batchVars, pipeline,
     textVars, groupVars, hybridVars, legacyVars >>

SessionsInit ==
  /\ SessionsIdle
  /\ AppIdle
  /\ TextIdle
  /\ GroupIdle
  /\ HybridIdle
  /\ LegacyIdle
  /\ pipeline = {}

\* session s starts: the ledger is loaded from Drive, or is set() when the
\* load fails (lines 249-273, 421-423)
SessionLoad(s, loaded) ==
  /\ sessions[s].phase = "closed"
  /\ sessions' =
       [sessions EXCEPT
          ![s].phase = "loaded",
          ![s].ledger_loaded = loaded,
          ![s].uploaded_file_keys_log = IF loaded THEN driveLog ELSE {}]
  /\ UNCHANGED << driveLog, transfers, sessionFrame >>

\* session s processes files whose documents have these keys and starts the
\* upload of the documents left selected (lines 481-489, 527-541)
SessionUploadBegin(s, keys) ==
  /\ sessions[s].phase = "loaded"
  /\ SelectedKeys(keys, sessions[s].uploaded_file_keys_log) # << >>
  /\ sessions' =
       [sessions EXCEPT
          ![s].phase = "batch",
          ![s].selected = SelectedKeys(keys, sessions[s].uploaded_file_keys_log),
          ![s].idx = 1,
          ![s].current_log_keys = sessions[s].uploaded_file_keys_log,
          ![s].log_update_needed = FALSE]
  /\ UNCHANGED << driveLog, transfers, sessionFrame >>

\* the retry loop of one item of session s: a call creates the file (ok) or
\* all calls raise (lines 561-591)
SessionUploadItem(s, ok) ==
  /\ sessions[s].phase = "batch"
  /\ sessions[s].idx <= Len(sessions[s].selected)
  /\ LET key == sessions[s].selected[sessions[s].idx]
     IN  IF ok
           THEN /\ transfers' = transfers \cup { << s, key >> }
                /\ sessions' =
                     [sessions EXCEPT
                        ![s].current_log_keys = @ \cup {key},
                        ![s].log_update_needed = TRUE,
                        ![s].idx = @ + 1]
           ELSE /\ sessions' = [sessions EXCEPT ![s].idx = @ + 1]
                /\ UNCHANGED transfers
  /\ UNCHANGED << driveLog, sessionFrame >>

\* after the loop of session s: update_or_create_log_file replaces the
\* content of the log file by current_log_keys, or fails and only logs it
\* (lines 213-247, 593-597)
SessionUploadFinish(s, written) ==
  /\ sessions[s].phase = "batch"
  /\ sessions[s].idx > Len(sessions[s].selected)
  /\ IF sessions[s].log_update_needed
       THEN /\ driveLog' = IF written THEN sessions[s].current_log_keys
                           ELSE driveLog
            /\ sessions' =
                 [sessions EXCEPT
                    ![s].phase = "finished",
                    ![s].uploaded_file_keys_log = sessions[s].current_log_keys,
                    ![s].log_written = written]
       ELSE /\ sessions' = [sessions EXCEPT ![s].phase = "finished"]
            /\ UNCHANGED driveLog
  /\ UNCHANGED << transfers, sessionFrame >>

SessionsNext ==
  \E s \in SessionIds :
    \/ \E loaded \in BOOLEAN : SessionLoad(s, loaded)
    \/ \E keys \in SessionDocuments : SessionUploadBegin(s, keys)
    \/ \E ok \in BOOLEAN : SessionUploadItem(s, ok)
    \/ \E written \in BOOLEAN : SessionUploadFinish(s, written)

SpecSessions == SessionsInit /\ [][SessionsNext]_vars

\* ------------------------------------------------------------------------
\* Claims about get_details_from_text (specification SpecText)
\* ------------------------------------------------------------------------
AllDigits(s) == \A k \in 1..Len(s) : IsDigit(s[k])

\* C7: get_details_from_text returns either None or a record whose year,
\* month and identifier are all present (a 4-digit year, a 2-digit month
\* code, a 6-digit identifier); it never returns a partial record.
C7_RecordValidity ==
  tstep = "done" =>
    \/ details = NoDetails
    \/ /\ details.some
       /\ Len(details.year) = 4 /\ AllDigits(details.year)
       /\ Len(details.month) = 2 /\ AllDigits(details.month)
       /\ Len(details.ippis) = 6 /\ AllDigits(details.ippis)

\* a record has been returned for a text in Full OCR mode
C7_Witness ==
  /\ tstep = "done"
  /\ details.some
  /\ ocrMode = "Full OCR"

\* the text holds a run of exactly six digits whose neighbours, if any, are
\* not digits
HasSixDigitRun(s) ==
  \E p \in 1..(Len(s) - 5) :
    /\ \A k \in 0..5 : IsDigit(s[p + k])
    /\ (p = 1 \/ ~IsDigit(s[p - 1]))
    /\ (p + 5 = Len(s) \/ ~IsDigit(s[p + 6]))

\* C8: the identifier is found exactly when the text holds a run of exactly
\* six digits whose neighbours are non-digits (letters and underscores
\* included): whenever the period is found, a record is returned if and only
\* if the text holds such a run.
C8_IdentifierOriginal ==
  (tstep = "done" /\ PeriodOf(text, ocrMode).found) =>
    (details.some <=> HasSixDigitRun(text))

\* C9: a text with a month abbreviation adjacent to a 20xx year and a
\* standalone six-digit run yields the record of that year, the code of that
\* abbreviation and that identifier, in every ocr_mode.
C9_AbbreviatedOriginal ==
  (tstep = "done" /\ AbbrSearch(text).found /\ IppisSearch(text) # Absent) =>
    details = [some |-> TRUE, year |-> AbbrSearch(text).year,
               month |-> AbbrSearch(text).month, ippis |-> IppisSearch(text)]

\* ------------------------------------------------------------------------
\* Claims about group_pages_by_payslip_from_texts (specification SpecGroup)
\* ------------------------------------------------------------------------
\* the page indices of the groups, in the order of the groups
RECURSIVE Flatten(_)
Flatten(gs) == IF gs = << >> THEN << >> ELSE Head(gs) \o Flatten(Tail(gs))

\* the groups are non-empty and list 0 .. n-1 in ascending order, each once
IsPartition(gs, n) ==
  /\ \A g \in 1..Len(gs) : gs[g] # << >>
  /\ Flatten(gs) = [j \in 1..n |-> j - 1]

\* C3: for every page count and marker placement the groups returned are
\* non-empty, ascending, disjoint, and their union is [0, N).
C3_PartitionOriginal ==
  gstep = "done" => IsPartition(groups, Len(pageTexts))

NoStartMarker == \A i \in 1..Len(pageTexts) : ~HasStartMarker(pageTexts[i])

\* C10: when no page text contains a marker, the grouper returns exactly the
\* N singleton groups [0], [1], ..., [N-1]. (The only marker the code knows
\* is START_MARKER; pages with a closing line are among the inputs.)
C10_Fallback ==
  (gstep = "done" /\ NoStartMarker) => groups = Singletons(Len(pageTexts))

\* a source of several pages without a marker has been grouped
C10_Witness ==
  /\ gstep = "done"
  /\ NoStartMarker
  /\ Len(pageTexts) >= 2
  /\ Len(groups) = Len(pageTexts)

\* ------------------------------------------------------------------------
\* Claims about the upload batch and the ledger (specification Spec)
\* ------------------------------------------------------------------------
\* the step is a call of upload_file_to_google_drive that returns
TransferSucceeds ==
  /\ pc = "upload"
  /\ idx <= Len(selected)
  /\ idx' = idx + 1
  /\ processed_payslips_data'[selected[idx]].upload_status_detail = "Uploaded"

\* C1: a document whose key was delivered in an earlier session, with the
\* ledger persisted, is 'Already uploaded' in a later session over the same
\* source, and no sequence of select and upload actions makes another
\* transfer call for that key: no transfer succeeds for a key that the
\* session loaded from the ledger at its start.
C1_IdempotentOriginal ==
  [][TransferSucceeds =>
       processed_payslips_data[selected[idx]].key \notin loadedLog]_vars

\* C2: after each successful transfer the delivered key is in the persistent
\* ledger before the next transfer of the batch starts: while a batch is
\* about to transfer its next item, the key of every item of the batch that
\* has been transferred is in the ledger on Drive.
C2_DurableOriginal ==
  (pc = "upload" /\ idx <= Len(selected)) =>
    \A j \in 1..(idx - 1) :
      processed_payslips_data[selected[j]].upload_status_detail = "Uploaded"
        => processed_payslips_data[selected[j]].key \in driveLog

\* item i is the one the retry loop is working on, after a failed call
InRetry(i) ==
  /\ pc = "upload"
  /\ idx <= Len(selected)
  /\ selected[idx] = i
  /\ attempt > 1

\* C4: the retry loop makes at most MAX_RETRIES calls for one document; a
\* call that raises is followed by another call of the same document until
\* MAX_RETRIES calls have raised, and the status is 'Final Failure (Retry
\* needed)' exactly when MAX_RETRIES calls of the delivery have raised.
C4_RetryCeiling ==
  /\ attempt \in 1..MAX_RETRIES
  /\ \A i \in 1..Len(processed_payslips_data) :
       LET item == processed_payslips_data[i]
       IN  /\ item.tries \in 0..MAX_RETRIES
           /\ InRetry(i) => item.tries = attempt - 1
           /\ ~InRetry(i) =>
                (item.upload_status_detail = FAILED_FINAL
                   <=> item.tries = MAX_RETRIES)

\* a batch is over in which every call for a document has raised
C4_Witness ==
  /\ pc = "idle"
  /\ \E i \in 1..Len(processed_payslips_data) :
       /\ processed_payslips_data[i].upload_status_detail = FAILED_FINAL
       /\ processed_payslips_data[i].tries = MAX_RETRIES

\* ------------------------------------------------------------------------
\* Claims about processing (specification SpecPipeline)
\* ------------------------------------------------------------------------
\* the canonical keys of a list of processed payslips
KeysOf(items) == {items[i].key : i \in 1..Len(items)}

\* C5: for any two naming patterns, processing the same source with each
\* yields the same set of canonical keys: the keys of the processed payslips
\* are those processing yields under every other naming pattern.
C5_KeyIndependenceOriginal ==
  ran =>
    \A naming_pattern \in NamingPatterns :
      KeysOf(processed_payslips_data) =
        KeysOf(ProcessAll(uploaded_files, 1, user_prefs.ocr_mode,
                          naming_pattern, ocr_fails))

\* C6: the 3-page source whose first page holds the start marker and
\* 'JAN 2024 111111', whose second page has no marker and whose third page
\* has an end marker and no identifier, yields exactly one group spanning
\* pages [0,1,2] with record {2024, 01, 111111} and status Details Extracted.
C6_EndToEndOriginal ==
  (ran /\ uploaded_files = << FileA >> /\ ocr_fails = NoFails(uploaded_files)
       /\ user_prefs.naming_pattern = DEFAULT_PATTERN) =>
    /\ Len(processed_payslips_data) = 1
    /\ processed_payslips_data[1].pages = << 0, 1, 2 >>
    /\ processed_payslips_data[1].status = "Details Extracted"
    /\ processed_payslips_data[1].year = << "2", "0", "2", "4" >>
    /\ processed_payslips_data[1].month = << "0", "1" >>
    /\ processed_payslips_data[1].ippis = << "1", "1", "1", "1", "1", "1" >>

\* ------------------------------------------------------------------------
\* Claims about the review table and the batch (specification Spec)
\* ------------------------------------------------------------------------
\* the step is one of the user actions of the review table, or a step of the
\* batch that Upload Selected runs
ReviewOrUploadStep ==
  \/ SelectAllValid
  \/ DeselectAll
  \/ \E i \in 1..Len(processed_payslips_data), value \in BOOLEAN :
       EditSelection(i, value)
  \/ UploadBegin
  \/ UploadMissingFile
  \/ \E ok \in BOOLEAN : UploadAttempt(ok)
  \/ \E written \in BOOLEAN : UploadFinish(written)

\* C11: once the upload status of a document is 'Uploaded', no later Select
\* All Valid, Deselect All, edit of the selection or Upload Selected of the
\* session changes that status.
C11_DeliveredTerminalOriginal ==
  [][ReviewOrUploadStep =>
       \A i \in 1..Len(processed_payslips_data) :
         processed_payslips_data[i].upload_status_detail = "Uploaded"
           => processed_payslips_data'[i].upload_status_detail = "Uploaded"]_vars

\* ------------------------------------------------------------------------
\* Claims about keys and text extraction (specification SpecPipeline)
\* ------------------------------------------------------------------------
\* C12: for a document with a record the canonical key is exactly
\* '{year}_{month}_{identifier}_{groupOrdinal}': the record and the ordinal
\* of the group only, without the name of the source file.
C12_KeyDerivationOriginal ==
  \A i \in 1..Len(processed_payslips_data) :
    LET item == processed_payslips_data[i]
    IN  item.some =>
          item.key = item.year \o << "_" >> \o item.month \o << "_" >>
                     \o item.ippis \o << "_" >> \o IntToStr(i)

\* C13: in every mode page_texts has one string per page of the source, in
\* page order; in Full OCR mode a page on which OCR fails gets the empty
\* string and every other page its OCR text (Normal mode keeps the embedded
\* texts, Hybrid mode one of the two texts of the page); a failure on a page
\* never aborts the run: the documents of the file are still produced.
C13_ExtractionLength ==
  ran =>
    \A f \in 1..Len(uploaded_files) :
      LET pages == uploaded_files[f].pages
          page_texts == PageTextsOf(pages, user_prefs.ocr_mode, ocr_fails[f])
      IN  /\ Len(page_texts) = Len(pages)
          /\ \A j \in 1..Len(pages) :
               /\ user_prefs.ocr_mode = "Full OCR" =>
                    page_texts[j] = IF (j - 1) \in ocr_fails[f] THEN << >>
                                    ELSE pages[j].ocr
               /\ user_prefs.ocr_mode = "Normal" =>
                    page_texts[j] = pages[j].embedded
               /\ user_prefs.ocr_mode = "Hybrid" =>
                    page_texts[j] \in {pages[j].embedded, pages[j].ocr}
          /\ user_prefs.naming_pattern # PATTERN_UNKNOWN =>
               processed_payslips_data # << >>

\* a file has been processed in Full OCR mode with OCR failing on one of its
\* pages and succeeding on another one
C13_Witness ==
  /\ ran
  /\ user_prefs.ocr_mode = "Full OCR"
  /\ ocr_fails[1] # {}
  /\ ocr_fails[1] # 0..(Len(uploaded_files[1].pages) - 1)
  /\ processed_payslips_data # << >>

\* ------------------------------------------------------------------------
\* Claims about the selection (specification Spec)
\* ------------------------------------------------------------------------
\* the step is the user selecting row i: a tick in the data editor
UserSelects(i) == EditSelection(i, TRUE)

\* C14: a document has status 'Details Extracted' iff it has a record and
\* 'Details Missing' otherwise, and the selection of a 'Details Missing'
\* document is set to true by nothing but the user selecting it explicitly:
\* never by processing, by a rerun of the page or by Select All Valid.
C14_SelectionOriginal ==
  [][\A i \in 1..Len(processed_payslips_data) :
       LET item == processed_payslips_data[i]
       IN  /\ item.status = (IF item.some THEN "Details Extracted"
                             ELSE "Details Missing")
           /\ ( /\ item.status = "Details Missing"
                /\ ~item.selected_for_upload
                /\ Len(processed_payslips_data') = Len(processed_payslips_data)
                /\ processed_payslips_data'[i].status = "Details Missing"
                /\ processed_payslips_data'[i].selected_for_upload )
              => UserSelects(i)]_vars

\* C15: a document that has exhausted its attempts stays in the list with
\* status 'Final Failure (Retry needed)', and is delivered again only after
\* the user has selected it again: when it is not selected, nothing but an
\* explicit selection by the user (a tick in the editor, or Select All
\* Valid) selects it.
C15_FailedFinalOriginal ==
  [][\A i \in 1..Len(processed_payslips_data) :
       LET item == processed_payslips_data[i]
       IN  ( /\ item.upload_status_detail = FAILED_FINAL
             /\ ~item.selected_for_upload
             /\ Len(processed_payslips_data') = Len(processed_payslips_data)
             /\ processed_payslips_data'[i].upload_status_detail = FAILED_FINAL
             /\ processed_payslips_data'[i].selected_for_upload )
           => (UserSelects(i) \/ SelectAllValid)]_vars

\* C16: when the ledger cannot be loaded at the start of a session, the run
\* is aborted and no delivery is attempted: no upload batch runs in a session
\* whose load of the ledger failed.
C16_LedgerUnreachableOriginal ==
  pc = "upload" => ledger_loaded

\* ------------------------------------------------------------------------
\* Claims about assembly (specification SpecPipeline)
\* ------------------------------------------------------------------------
\* the page groups of uploaded file f under the preferences of the run
GroupsOfFile(f) ==
  group_pages_by_payslip_from_texts(
    PageTextsOf(uploaded_files[f].pages, user_prefs.ocr_mode, ocr_fails[f]),
    Len(uploaded_files[f].pages))

\* C17: a failure while assembling one group (such as a naming pattern with
\* an unknown placeholder) affects the document of that group only: every
\* group of the source still yields a document, in the order of the groups.
C17_GroupFailureOriginal ==
  (ran /\ Len(uploaded_files) = 1) =>
    /\ Len(processed_payslips_data) = Len(GroupsOfFile(1))
    /\ \A g \in 1..Len(processed_payslips_data) :
         processed_payslips_data[g].pages = GroupsOfFile(1)[g]

\* s ends with suffix
EndsWith(s, suffix) ==
  /\ Len(s) >= Len(suffix)
  /\ SubSeq(s, Len(s) - Len(suffix) + 1, Len(s)) = suffix

\* C18: for every naming pattern, ending in '.pdf' or not, the filename of a
\* document with a record ends with '.pdf' exactly once: never '.pdf.pdf',
\* never without it.
C18_SuffixOriginal ==
  \A i \in 1..Len(processed_payslips_data) :
    LET item == processed_payslips_data[i]
    IN  item.some =>
          /\ EndsWith(item.filename, DOT_PDF)
          /\ ~EndsWith(item.filename, DOT_PDF \o DOT_PDF)

\* ------------------------------------------------------------------------
\* Claims about the upload loop of 33.py (specification Spec33)
\* ------------------------------------------------------------------------
\* C19: in the upload loop of 33.py a key is in the uploaded-keys ledger, and
\* its row is marked 'Uploaded Successfully', only if the transfer of that
\* document succeeded: every key of uploaded_file_keys and of the log file,
\* and the key of every row marked 'Uploaded Successfully', is the key of a
\* file created on Drive.
C19_LedgerSuccessOriginal ==
  /\ uploaded_file_keys \subseteq drive_files
  /\ UPLOAD_LOG \subseteq drive_files
  /\ \A j \in 1..Len(status_data) :
       status_data[j] = "Uploaded Successfully"
         => matched_pdfs_with_keys[j] \in drive_files

\* ------------------------------------------------------------------------
\* Claims about the Hybrid branch (specification SpecHybrid)
\* ------------------------------------------------------------------------
\* the fallback condition as the claim states it
FallbackCondition(embedded) ==
  \/ Len(Strip(embedded)) < 80
  \/ ( /\ ~Contains(Upper(embedded), FEDERAL_GOVERNMENT)
       /\ ~YearSearch(embedded) )

\* the OCR text of the page: '' when OCR fails on it
OcrTextOfPage == IF ocr_failed THEN << >> ELSE page.ocr

\* C20, as stated: the text kept for a page is the embedded text unless the
\* fallback condition holds and the OCR text is strictly longer than the
\* embedded text (the lengths of the two texts as they are); OCR is called
\* for no page that fails the fallback condition.
C20_HybridOriginal ==
  hstep = "done" =>
    /\ kept = IF FallbackCondition(page.embedded)
                 /\ Len(OcrTextOfPage) > Len(page.embedded)
                THEN OcrTextOfPage ELSE page.embedded
    /\ ocr_called => FallbackCondition(page.embedded)

\* C20, amended: the same with the lengths of the two texts taken after
\* stripping leading and trailing whitespace; when the stripped lengths are
\* equal the embedded text is kept.
C20_HybridAmended ==
  hstep = "done" =>
    /\ kept = IF FallbackCondition(page.embedded)
                 /\ Len(Strip(OcrTextOfPage)) > Len(Strip(page.embedded))
                THEN OcrTextOfPage ELSE page.embedded
    /\ ocr_called => FallbackCondition(page.embedded)

\* OCR was called and returned a text as long as the embedded one, which was
\* kept
C20_Witness ==
  /\ hstep = "done"
  /\ ocr_called
  /\ ~ocr_failed
  /\ page.ocr # page.embedded
  /\ Len(Strip(page.ocr)) = Len(Strip(page.embedded))
  /\ kept = page.embedded

\* ------------------------------------------------------------------------
\* More claims about group_pages_by_payslip_from_texts (specification
\* SpecGroup)
\* ------------------------------------------------------------------------
\* the closing line of a payslip, taken as the end marker of the claim
END_MARKER == << "E", "N", "D", " ", "O", "F", " ", "P", "A", "Y", "S", "L", "I", "P" >>

HasEndMarker(t) == Contains(Upper(t), END_MARKER)

\* C21: a page whose text contains the end marker is included in the open
\* group and closes it: in every group returned, a page with the end marker
\* is the last page of its group.
C21_EndMarkerOriginal ==
  gstep = "done" =>
    \A g \in 1..Len(groups) :
      \A k \in 1..Len(groups[g]) :
        HasEndMarker(pageTexts[groups[g][k] + 1]) => k = Len(groups[g])

\* the indices of the pages whose text contains the start marker
StartPages == {i \in 0..(Len(pageTexts) - 1) : HasStartMarker(pageTexts[i + 1])}

\* the groups of the marker scan: one per start page, from that page up to
\* the page before the next start page, or up to the last page
GroupsAreScan ==
  /\ Len(groups) = Cardinality(StartPages)
  /\ \A g \in 1..Len(groups) :
       /\ groups[g] # << >>
       /\ groups[g][1] \in StartPages
       /\ \A k \in 2..Len(groups[g]) :
            /\ groups[g][k] = groups[g][k - 1] + 1
            /\ groups[g][k] \notin StartPages
       /\ IF g < Len(groups)
            THEN groups[g + 1][1] = groups[g][Len(groups[g])] + 1
            ELSE groups[g][Len(groups[g])] = Len(pageTexts) - 1
  /\ groups # << >> => \A i \in StartPages : groups[1][1] <= i

\* C22: when the marker scan produces no group (no start marker), or one
\* group covering all N pages (a start marker on the first page only), the
\* grouper returns one singleton group per page; in every other case it
\* returns the groups of the scan.
C22_SingleGroupFallback ==
  gstep = "done" =>
    IF StartPages = {} \/ StartPages = {0}
      THEN groups = Singletons(Len(pageTexts))
      ELSE GroupsAreScan

\* a source of several pages with the start marker on its first page only
\* has been grouped
C22_Witness ==
  /\ gstep = "done"
  /\ Len(pageTexts) >= 3
  /\ StartPages = {0}
  /\ groups = Singletons(Len(pageTexts))

\* ------------------------------------------------------------------------
\* Claims about the year of the record (specification SpecYear)
\* ------------------------------------------------------------------------
\* the first 4-digit token beginning with '20' of the text: the leftmost
\* match of \b(20\d{2})\b
FirstYearToken(s) ==
  LET found == {p \in 1..Len(s) : Boundary(s, p - 1) /\ YearAt(s, p)}
  IN  IF found = {} THEN Absent
      ELSE SubSeq(s, Leftmost(found), Leftmost(found) + 3)

\* C23: the year of a returned record is the first occurrence in the text of
\* a 4-digit token beginning with '20', also when an earlier 20xx token
\* stands before a later 'MON-YYYY' token.
C23_YearOriginal ==
  (tstep = "done" /\ details.some) => details.year = FirstYearToken(text)


\* C24: after the failure of attempt k, 1 <= k < 5, the retry loop sleeps
\* min(30, 2 * 2^(k-1)) before attempt k+1, the sleeps of a delivery never
\* decrease and never exceed 30, and a pass that ends the delivery (a success
\* or the failure of the last attempt) does not sleep.
MinOf(a, b) == IF a < b THEN a ELSE b

C24_Backoff ==
  [][IF attempt' = attempt + 1
       THEN /\ attempt \in 1..4
            /\ slept' = MinOf(30, 2 * (2 ^ (attempt - 1)))
            /\ slept' >= slept
            /\ slept' <= 30
       ELSE slept' = 0]_vars

\* the fourth attempt of a delivery has failed and the loop has slept 16
C24_Witness == pc = "upload" /\ attempt = 5 /\ slept = 16


\* C25: a document without a record gets a key that is unique to the
\* processing run and the ordinal of the group, so that a second run over
\* the same files gives its documents without a record other keys than the
\* first, and that is the key of no document with a record.
C25_RecordAbsentOriginal ==
  [][(ran /\ ran' /\ uploaded_files' = uploaded_files) =>
       /\ \A i \in 1..Len(processed_payslips_data) :
            \A j \in 1..Len(processed_payslips_data') :
              (~processed_payslips_data[i].some
               /\ ~processed_payslips_data'[j].some)
                => processed_payslips_data[i].key
                     # processed_payslips_data'[j].key
       /\ \A i, j \in 1..Len(processed_payslips_data') :
            (~processed_payslips_data'[i].some
             /\ processed_payslips_data'[j].some)
              => processed_payslips_data'[i].key
                   # processed_payslips_data'[j].key]_vars


\* ------------------------------------------------------------------------
\* Claims about concurrent sessions (specification SpecSessions)
\* ------------------------------------------------------------------------
\* C26: when two sessions have each loaded the ledger at their start and
\* each has completed an upload batch whose ledger write succeeded, in any
\* interleaving, the ledger on Drive holds every key either session has
\* delivered, and no key has been transferred by both sessions.
C26_ConcurrentOriginal ==
  (\A s \in SessionIds :
     /\ sessions[s].phase = "finished"
     /\ sessions[s].ledger_loaded
     /\ sessions[s].log_update_needed => sessions[s].log_written)
    => /\ \A t \in transfers : t[2] \in driveLog
       /\ \A k \in SessionKeys :
            ~(<< 1, k >> \in transfers /\ << 2, k >> \in transfers)


\* ------------------------------------------------------------------------
\* Further claims about the upload batch (specification Spec)
\* ------------------------------------------------------------------------
\* the step that ends an upload batch (the session goes on)
BatchEnds ==
  /\ pc = "upload"
  /\ pc' = "idle"
  /\ processed_payslips_data' = processed_payslips_data

\* C27: at the end of every upload batch every key of the session's
\* uploaded_file_keys_log is in the ledger on Drive; when the write of the
\* ledger fails the session set is not updated.
C27_NeverAheadOriginal ==
  [][BatchEnds => uploaded_file_keys_log' \subseteq driveLog']_vars


\* ------------------------------------------------------------------------
\* Further claims about assembly (specification SpecPipeline)
\* ------------------------------------------------------------------------
\* the ordinals of the groups of uploaded file f whose temporary file the
\* call has written (lines 385-387), up to the group on which it raises
TempFilesWritten(f) ==
  LET pages == uploaded_files[f].pages
      page_texts == PageTextsOf(pages, user_prefs.ocr_mode, ocr_fails[f])
      run == AssembleFrom(page_texts,
                          group_pages_by_payslip_from_texts(page_texts, Len(pages)),
                          1, user_prefs.ocr_mode, user_prefs.naming_pattern,
                          safe_slugify(uploaded_files[f].name), << >>)
  IN  1..Len(run.processed)

\* the ordinals of the groups of uploaded file f whose temporary file an
\* entry of the list returned refers to
TempFilesReturned(f) ==
  LET processed ==
        split_and_rename_pdf_dynamic(uploaded_files[f].pages, user_prefs.ocr_mode,
                                     user_prefs.naming_pattern,
                                     safe_slugify(uploaded_files[f].name),
                                     ocr_fails[f])
  IN  {g \in 1..Len(processed) : processed[g].temp_file_path}

\* C28: every temporary file split_and_rename_pdf_dynamic has written is
\* referred to by an entry of the list it returns, also when a later group of
\* the source raises and the list returned is empty.
C28_NoOrphansOriginal ==
  ran => \A f \in 1..Len(uploaded_files) :
           TempFilesWritten(f) \subseteq TempFilesReturned(f)


\* C29: any two distinct documents of one processing run, documents of two
\* different uploaded files included, have distinct canonical keys.
C29_KeyUniquenessOriginal ==
  \A i, j \in 1..Len(processed_payslips_data) :
    i # j => processed_payslips_data[i].key # processed_payslips_data[j].key


\* the upload batch is at a selected document whose temporary file is absent
AtMissingFile ==
  /\ pc = "upload"
  /\ idx <= Len(selected)
  /\ ~processed_payslips_data[selected[idx]].temp_file_path

\* C30: when the temporary file of a selected document is absent at upload
\* time, the batch makes no transfer attempt for it, sets its status to
\* 'Final Failure (Missing File)', deselects it, adds no key to the ledger
\* and goes on with the next selected document.
C30_MissingFile ==
  [][(AtMissingFile /\ pc' = "upload") =>
       LET i == selected[idx]
       IN  /\ processed_payslips_data' =
                [processed_payslips_data EXCEPT
                   ![i].upload_status_detail = MISSING_FILE,
                   ![i].selected_for_upload = FALSE]
           /\ processed_payslips_data'[i].tries = processed_payslips_data[i].tries
           /\ attempt' = attempt
           /\ slept' = slept
           /\ current_log_keys' = current_log_keys
           /\ log_update_needed' = log_update_needed
           /\ driveLog' = driveLog
           /\ uploaded_file_keys_log' = uploaded_file_keys_log
           /\ selected' = selected
           /\ idx' = idx + 1]_vars

\* a batch has passed over a document whose temporary file was absent and
\* is at the next selected document
C30_Witness ==
  /\ pc = "upload"
  /\ idx > 1
  /\ idx <= Len(selected)
  /\ processed_payslips_data[selected[idx - 1]].upload_status_detail = MISSING_FILE

====
